---- MODULE Spec2Model ----
(***************************************************************************)
(* Staged-commit version store of the 3D-print assistant front end.        *)
(*                                                                         *)
(*   History   src/frontend/js/history.js   versions, currentIndex         *)
(*   AppState  src/unnamed/part_004         head / pending design, meshes  *)
(*   App       src/frontend/main.js         propose, approve, reject,      *)
(*                                          undo, redo, restore            *)
(*   UI        src/unnamed/part_003         action buttons, history panel  *)
(*   API       src/unnamed/part_005         backend calls (await points)   *)
(*   Viewer    src/frontend/js/viewer.js    loadSTL callbacks              *)
(*                                                                         *)
(* The backend and the STL loader are the environment: every reply they    *)
(* can give is an input of the step that consumes it.  An async function   *)
(* is cut at its awaits and callbacks; the code between two cuts runs to   *)
(* completion and is one action.                                           *)
(***************************************************************************)
EXTENDS Integers, Sequences, FiniteSets, Bags, TLC

(* ------------------------------ bounds -------------------------------- *)
\* History.maxVersions, history.js:6 sets 50; scaled down for checking.
maxVersions == 2
\* Distinct parameter sets (documents) the backend can hand out.
NumDocs == 2
\* Date.getTime() values observed, 0..MaxClock.
MaxClock == 1
\* Math.floor(Math.random() * 1000) scaled to 0..MaxRandom.
MaxRandom == 0
\* Async operations in flight at once.
MaxTasks == 2
\* Entries returned by GET /history at start-up.
MaxInit == 2

\* Most versions in an imported history file.
MaxImport == 2
\* getUserMedia is called at most this many times.
MaxRecordings == 3

(* ------------------------------ values -------------------------------- *)
\* JavaScript null / undefined for object-valued slots.
Null == [null |-> TRUE]

Params == 1..NumDocs

\* AppState.currentDesign / version.design: { parameters, analysis }.
Design(p, a) == [parameters |-> p, analysis |-> a]

\* JSON.parse(JSON.stringify(x)) on a design: a new object with the same
\* JSON-representable properties; a property holding undefined is dropped,
\* which reads back as undefined.
JsonClone(d) == Design(d.parameters, d.analysis)

\* The success body of POST /modify as stored by setModifiedDesign.
\* new_parameters or parameters carries the candidate; 0 stands for an
\* absent (falsy) property.
Candidate(np, p) ==
  [status |-> "success", new_parameters |-> np, parameters |-> p,
   analysis |-> "A", understood |-> "understood"]

\* FULL_DETAILS.md:1101-1121: a success body carries new_parameters.
Candidates == {Candidate(p, 0) : p \in Params}

\* main.js:374-382, the design object approve commits.
\* Mutant: the candidate's new_parameters are ignored.
NormalizedDesign_IgnoresNew(m) == Design(m.parameters, m.analysis)

NormalizedDesign(m) ==
  Design(IF m.new_parameters # 0 THEN m.new_parameters ELSE m.parameters,
         m.analysis)

(* ------------------------------ History ------------------------------- *)
\* history.js:92-97: `v${timestamp}_${random}`.
generateVersionId(timestamp, random) == <<timestamp, random>>

\* history.js:52-61: the entry built by addVersion.  It has no `version`
\* property (0 = absent/falsy).
NewVersion(design, description, id) ==
  [id |-> id,
   version |-> 0,
   description |-> description,
   design |-> JsonClone(design),
   parameters |-> design.parameters,
   analysis |-> IF design.analysis \in {"null", "undefined"}
                 THEN "null" ELSE design.analysis]

\* Mutant: the truncation of history.js:63-71 also drops the cursor's entry.
addVersion_DropsCursor(vs, ci, design, description, id) ==
  LET kept == IF ci < Len(vs) - 1 THEN SubSeq(vs, 1, ci) ELSE vs
      pushed == Append(kept, NewVersion(design, description, id))
      ci1 == Len(pushed) - 1
  IN  IF Len(pushed) > maxVersions
        THEN [versions |-> Tail(pushed), currentIndex |-> ci1 - 1]
        ELSE [versions |-> pushed, currentIndex |-> ci1]

\* Mutant: over the limit, the entry just pushed is the one dropped.
addVersion_DropsNewest(vs, ci, design, description, id) ==
  LET kept == IF ci < Len(vs) - 1 THEN SubSeq(vs, 1, ci + 1) ELSE vs
      pushed == Append(kept, NewVersion(design, description, id))
      ci1 == Len(pushed) - 1
  IN  IF Len(pushed) > maxVersions
        THEN [versions |-> kept, currentIndex |-> ci1 - 1]
        ELSE [versions |-> pushed, currentIndex |-> ci1]

\* Mutant: the size limit of history.js:78-81 is left out.
addVersion_NoLimit(vs, ci, design, description, id) ==
  LET kept == IF ci < Len(vs) - 1 THEN SubSeq(vs, 1, ci + 1) ELSE vs
      pushed == Append(kept, NewVersion(design, description, id))
  IN  [versions |-> pushed, currentIndex |-> Len(pushed) - 1]

\* history.js:48-89.  Result: the new versions and currentIndex.
addVersion(vs, ci, design, description, id) ==
  LET kept == IF ci < Len(vs) - 1 THEN SubSeq(vs, 1, ci + 1) ELSE vs
      pushed == Append(kept, NewVersion(design, description, id))
      ci1 == Len(pushed) - 1
  IN  IF Len(pushed) > maxVersions
        THEN [versions |-> Tail(pushed), currentIndex |-> ci1 - 1]
        ELSE [versions |-> pushed, currentIndex |-> ci1]

\* history.js:100-107.
canUndo(ci) == ci > 0
canRedo(vs, ci) == ci < Len(vs) - 1

\* history.js:110-135: the index after undo / redo (unchanged = returned null).
undo(vs, ci) == IF ~canUndo(ci) THEN ci ELSE ci - 1
\* Mutant: redo leaves the cursor where it is.
redo_Stays(vs, ci) == ci

redo(vs, ci) == IF ~canRedo(vs, ci) THEN ci ELSE ci + 1

\* history.js:154-163.
\* Mutant: the range check of history.js:155 is left out.
jumpToVersion_Unchecked(vs, ci, index) == index

jumpToVersion(vs, ci, index) ==
  IF index >= 0 /\ index < Len(vs) THEN index ELSE ci

\* history.js:24-35: an entry of GET /history converted by loadFromBackend.
BackendVersion(n, p) ==
  [id |-> <<n, 0>>,
   version |-> n,
   description |-> "backend",
   design |-> Design(p, "null"),
   parameters |-> p,
   analysis |-> "null"]

(* ------------------------------- state -------------------------------- *)
VARIABLES
  versions,        \* History.versions
  currentIndex,    \* History.currentIndex (0-based, -1 = none)
  currentDesign,   \* AppState.currentDesign
  modifiedDesign,  \* AppState.modifiedDesign
  currentMesh,     \* AppState.currentMesh: "null" or the STL it was built from
  modifiedMesh,    \* AppState.modifiedMesh
  isLoading,       \* AppState.isLoading
  actionButtons,   \* #action-buttons shown (UI.showActionButtons)
  tasks,           \* bag of suspended async operations
  now,             \* Date.getTime()
  scene,           \* AppState.scene: the meshes that are its children
  headRef,         \* 1-based position of the stored entry whose design
                   \* object is the very object AppState.currentDesign
                   \* references, 0 if it is no stored entry's
  speech,          \* the Speech object and the browser resources it made
  lastOp,          \* history variable: the outcome the last step was,
                   \* "other" for the steps no property singles out
  trail            \* history variable: an undo/redo pair being followed

app == <<versions, currentIndex, currentDesign, modifiedDesign, currentMesh,
         modifiedMesh, isLoading, actionButtons, tasks, now, scene>>

vars == <<versions, currentIndex, currentDesign, modifiedDesign, currentMesh,
          modifiedMesh, isLoading, actionButtons, tasks, now, scene, lastOp,
          trail, headRef, speech>>

\* A suspended operation: which function, where it waits, and its locals.
Task(op, pc, description, version) ==
  [op |-> op, pc |-> pc, description |-> description, version |-> version]

InFlight == BagToSet(tasks)
Spawn(t) == tasks (+) SetToBag({t})
Finish(t) == tasks (-) SetToBag({t})
\* t resumes later at pc; locals it no longer reads are dropped.
Move(t, pc) ==
  (tasks (-) SetToBag({t})) (+) SetToBag({Task(t.op, pc, "", Null)})
CanSpawn == BagCardinality(tasks) < MaxTasks

\* History mark: a propose that waits for its reply (main.js:256) while
\* AppState.currentDesign is replaced (a commit, or a restore to another
\* design) has description "stale" from then on; the code keeps no such
\* record.
WaitsForProposal(t) == t.op = "submit" /\ t.pc = "api"
MarkStale(b) ==
  LET mark(t) == IF WaitsForProposal(t)
                   THEN [t EXCEPT !.description = "stale"] ELSE t
      S == BagToSet(b)
      copies(u) == IF u \in S THEN b[u] ELSE 0
      fresh(u) == [u EXCEPT !.description = ""]
  IN  [u \in {mark(t) : t \in S} |->
         IF WaitsForProposal(u) THEN copies(u) + copies(fresh(u))
                                ELSE copies(u)]

\* part_004:56-91, the scene after setCurrentMesh / setModifiedMesh /
\* removeModifiedMesh: the mesh the slot held is removed from the scene,
\* the new one, unless null, is added.
SceneAfterSet(sc, old, mesh) == (sc \ {old}) \cup ({mesh} \ {"null"})

\* main.js:370: the modified mesh object becomes the current one.  A mesh
\* is named after the STL it was loaded from; the promoted object gets a
\* name of its own, since a new modified.stl mesh can be loaded while it
\* is current.
Promoted(mesh) == IF mesh = "null" THEN "null" ELSE "promoted"

\* js/main.js:583-593, the Speech object as declared, with the resources
\* the browser holds for it: getUserMedia streams with live tracks,
\* MediaRecorders recording, timers armed, stop events not yet delivered,
\* and the startRecording calls that wait for getUserMedia.
SpeechIdle ==
  [isListening |-> FALSE, stream |-> 0, mediaRecorder |-> 0,
   recordingTimeout |-> 0, recordingInterval |-> 0,
   currentAudioBlob |-> FALSE,
   starting |-> 0, made |-> 0, sending |-> 0,
   streams |-> {}, recorders |-> {}, timeouts |-> {}, intervals |-> {},
   stopped |-> {}]

\* main.js:590-592: AppState.setCurrentDesign(version.design) makes the
\* head the stored entry's own design object; the entry's position.
AliasOf(vs, version) ==
  IF \E k \in 1..Len(vs) : vs[k] = version
    THEN CHOOSE k \in 1..Len(vs) : vs[k] = version
    ELSE 0

\* No undo/redo pair is being followed.
NoTrail == [phase |-> "none", idx0 |-> 0, head0 |-> Null]

(* ------------------------------ start-up ------------------------------ *)
\* main.js:162-237, App.loadCurrentDesign has finished: either the backend
\* had no history and History.init(data) made the first entry, or
\* History.loadFromBackend converted the backend's list (history.js:24-37).
InitFresh ==
  \E p \in Params, r \in 0..MaxRandom :
    /\ currentDesign = Design(p, "A")
    /\ versions = addVersion(<<>>, -1, Design(p, "A"),
                             "Initial design loaded",
                             generateVersionId(0, r)).versions
    /\ currentIndex = 0

InitLoaded ==
  \E n \in 1..MaxInit : \E ps \in [1..n -> Params] :
    /\ versions = [k \in 1..n |-> BackendVersion(k, ps[k])]
    /\ currentIndex = n - 1
    /\ currentDesign = Design(ps[n], "A")

Init ==
  /\ InitFresh \/ InitLoaded
  /\ modifiedDesign = Null
  /\ currentMesh = "current.stl"
  /\ modifiedMesh = "null"
  /\ scene = {"current.stl"}
  /\ isLoading = FALSE
  /\ actionButtons = FALSE
  /\ tasks = EmptyBag
  /\ now = 0
  /\ lastOp = "other"
  /\ trail = NoTrail
  /\ headRef = 0
  /\ speech = SpeechIdle

\* The clock read by generateVersionId advances on its own.
Tick ==
  /\ now < MaxClock
  /\ now' = now + 1
  /\ lastOp' = "other"
  /\ UNCHANGED <<versions, currentIndex, currentDesign, modifiedDesign,
                 currentMesh, modifiedMesh, isLoading, actionButtons, tasks,
                 trail,
                 scene>>
  /\ UNCHANGED <<headRef, speech>>

(* ------------------------------ propose ------------------------------- *)
\* Mutant: the isLoading check of main.js:242-245 is left out.
SubmitModification_Unguarded ==
  /\ CanSpawn
  /\ isLoading' = TRUE
  /\ tasks' = Spawn(Task("submit", "api", "", Null))
  /\ lastOp' = "other"
  /\ UNCHANGED <<versions, currentIndex, currentDesign, modifiedDesign,
                 currentMesh, modifiedMesh, actionButtons, now, trail,
                 scene>>
  /\ UNCHANGED <<headRef, speech>>

\* main.js:240-256, up to the await of API.submitModification.
SubmitModification ==
  /\ ~isLoading
  /\ CanSpawn
  /\ isLoading' = TRUE
  /\ tasks' = Spawn(Task("submit", "api", "", Null))
  /\ lastOp' = "other"
  /\ UNCHANGED <<versions, currentIndex, currentDesign, modifiedDesign,
                 currentMesh, modifiedMesh, actionButtons, now, trail,
                 scene>>
  /\ UNCHANGED <<headRef, speech>>

\* main.js:258-265: the request failed.
SubmitFailed(t) ==
  /\ t.op = "submit" /\ t.pc = "api"
  /\ isLoading' = FALSE
  /\ tasks' = Finish(t)
  /\ lastOp' = "declined"
  /\ UNCHANGED <<versions, currentIndex, currentDesign, modifiedDesign,
                 currentMesh, modifiedMesh, actionButtons, now, trail,
                 scene>>
  /\ UNCHANGED <<headRef, speech>>

\* Mutant: a declined proposal also drops what was pending.
SubmitNoChange_ClearsPending(t) ==
  /\ t.op = "submit" /\ t.pc = "api"
  /\ isLoading' = FALSE
  /\ modifiedDesign' = Null
  /\ tasks' = Finish(t)
  /\ lastOp' = "declined"
  /\ UNCHANGED <<versions, currentIndex, currentDesign, currentMesh,
                 modifiedMesh, actionButtons, now, trail,
                 scene>>
  /\ UNCHANGED <<headRef, speech>>

\* main.js:269-276 (clarification_needed) and 308-312 (any other status).
SubmitNoChange(t) ==
  /\ t.op = "submit" /\ t.pc = "api"
  /\ isLoading' = FALSE
  /\ tasks' = Finish(t)
  /\ lastOp' = "declined"
  /\ UNCHANGED <<versions, currentIndex, currentDesign, modifiedDesign,
                 currentMesh, modifiedMesh, actionButtons, now, trail,
                 scene>>
  /\ UNCHANGED <<headRef, speech>>

\* Mutant: an earlier pending candidate is kept.
SubmitSuccess_KeepsEarlier(t, data) ==
  /\ t.op = "submit" /\ t.pc = "api"
  /\ modifiedDesign' = IF modifiedDesign # Null THEN modifiedDesign ELSE data
  /\ tasks' = Move(t, "stl")
  /\ lastOp' = IF modifiedDesign \notin {Null, data} THEN "restaged"
               ELSE "other"
  /\ UNCHANGED <<versions, currentIndex, currentDesign, currentMesh,
                 modifiedMesh, isLoading, actionButtons, now, trail,
                 scene>>
  /\ UNCHANGED <<headRef, speech>>

\* main.js:278-307: status success; the candidate is staged and the load
\* of modified.stl is started.
SubmitSuccess(t, data) ==
  /\ t.op = "submit" /\ t.pc = "api"
  /\ modifiedDesign' = data
  /\ tasks' = Move(t, "stl")
  /\ lastOp' = IF modifiedDesign \notin {Null, data} THEN "restaged"
               ELSE "other"
  /\ UNCHANGED <<versions, currentIndex, currentDesign, currentMesh,
                 modifiedMesh, isLoading, actionButtons, now, trail,
                 scene>>
  /\ UNCHANGED <<headRef, speech>>

\* main.js:291-306: onLoad of modified.stl.
SubmitStlLoaded(t) ==
  /\ t.op = "submit" /\ t.pc = "stl"
  /\ modifiedMesh' = "modified.stl"
  /\ scene' = SceneAfterSet(scene, modifiedMesh, "modified.stl")
  /\ actionButtons' = TRUE
  /\ isLoading' = FALSE
  /\ tasks' = Finish(t)
  /\ lastOp' = "other"
  /\ UNCHANGED <<versions, currentIndex, currentDesign, modifiedDesign,
                 currentMesh, now, trail>>
  /\ UNCHANGED <<headRef, speech>>

\* viewer.js:615-622: the error callback of loadSTL only reports.
StlError(t) ==
  /\ t.pc = "stl"
  /\ tasks' = Finish(t)
  /\ lastOp' = "other"
  /\ UNCHANGED <<versions, currentIndex, currentDesign, modifiedDesign,
                 currentMesh, modifiedMesh, isLoading, actionButtons, now,
                 trail,
                 scene>>
  /\ UNCHANGED <<headRef, speech>>

(* ------------------------------ approve ------------------------------- *)
\* main.js:319-333, up to the await of API.approveDesign.  The local
\* `description` is modifiedDesign?.understood || "Design approved".
ApproveDesign ==
  /\ ~isLoading
  /\ CanSpawn
  /\ isLoading' = TRUE
  /\ tasks' = Spawn(Task("approve", "api",
                         IF modifiedDesign = Null THEN "Design approved"
                                                  ELSE modifiedDesign.understood,
                         Null))
  /\ lastOp' = "other"
  /\ UNCHANGED <<versions, currentIndex, currentDesign, modifiedDesign,
                 currentMesh, modifiedMesh, actionButtons, now, trail,
                 scene>>
  /\ UNCHANGED <<headRef, speech>>

\* Mutant: a failed approve still makes the candidate the head.
ApproveFailed_SetsHead(t) ==
  /\ t.op = "approve" /\ t.pc = "api"
  /\ isLoading' = FALSE
  /\ currentDesign' = IF modifiedDesign # Null
                        THEN NormalizedDesign(modifiedDesign)
                        ELSE currentDesign
  /\ tasks' = Finish(t)
  /\ lastOp' = "approveFailed"
  /\ UNCHANGED <<versions, currentIndex, modifiedDesign, currentMesh,
                 modifiedMesh, actionButtons, now, trail,
                 scene>>
  /\ UNCHANGED <<headRef, speech>>

\* main.js:335-339: the request failed.
ApproveFailed(t) ==
  /\ t.op = "approve" /\ t.pc = "api"
  /\ isLoading' = FALSE
  /\ tasks' = Finish(t)
  /\ lastOp' = "approveFailed"
  /\ UNCHANGED <<versions, currentIndex, currentDesign, modifiedDesign,
                 currentMesh, modifiedMesh, actionButtons, now, trail,
                 scene>>
  /\ UNCHANGED <<headRef, speech>>

\* main.js:343, 417-418: a reply whose status is not "approved" skips the
\* whole branch; the function returns and isLoading keeps its value.
ApproveNotApproved(t) ==
  /\ t.op = "approve" /\ t.pc = "api"
  /\ tasks' = Finish(t)
  /\ lastOp' = "approveNotApproved"
  /\ UNCHANGED <<versions, currentIndex, currentDesign, modifiedDesign,
                 currentMesh, modifiedMesh, isLoading, actionButtons, now,
                 trail,
                 scene>>
  /\ UNCHANGED <<headRef, speech>>

\* main.js:343-376 with AppState.modifiedDesign null: the meshes are
\* swapped (370-371), then reading modifiedDesign.new_parameters throws a
\* TypeError that nothing catches; the rest of the function is skipped.
ApproveThrows(t) ==
  /\ t.op = "approve" /\ t.pc = "api"
  /\ modifiedDesign = Null
  /\ currentMesh' = Promoted(modifiedMesh)
  /\ modifiedMesh' = "null"
  /\ scene' = SceneAfterSet(SceneAfterSet(scene, currentMesh, modifiedMesh),
                            modifiedMesh, "null")
  /\ tasks' = Finish(t)
  /\ lastOp' = "approveThrew"
  /\ UNCHANGED <<versions, currentIndex, currentDesign, modifiedDesign,
                 isLoading, actionButtons, now, trail>>
  /\ UNCHANGED <<headRef, speech>>

\* main.js:343-416 with a staged candidate: mesh swap, head := normalized
\* candidate, pending cleared, History.addVersion, buttons hidden, reload
\* of current.stl started.
ApproveCommit(t) ==
  /\ t.op = "approve" /\ t.pc = "api"
  /\ modifiedDesign # Null
  /\ \E random \in 0..MaxRandom :
       LET normalizedDesign == NormalizedDesign(modifiedDesign)
           h == addVersion(versions, currentIndex, normalizedDesign,
                           t.description, generateVersionId(now, random))
       IN  /\ currentDesign' = normalizedDesign
           /\ versions' = h.versions
           /\ currentIndex' = h.currentIndex
  /\ currentMesh' = Promoted(modifiedMesh)
  /\ modifiedMesh' = "null"
  /\ scene' = SceneAfterSet(SceneAfterSet(scene, currentMesh, modifiedMesh),
                            modifiedMesh, "null")
  /\ modifiedDesign' = Null
  /\ actionButtons' = FALSE
  /\ tasks' = MarkStale(Move(t, "stl"))
  /\ lastOp' = IF currentIndex < Len(versions) - 1 THEN "commitAfterUndo"
               ELSE IF Len(versions) >= maxVersions THEN "commitAtBound"
               ELSE "commit"
  /\ trail' = NoTrail
  /\ UNCHANGED <<isLoading, now>>
  /\ headRef' = 0
  /\ UNCHANGED speech

\* main.js:410-415: onLoad of current.stl after approve.
ApproveStlLoaded(t) ==
  /\ t.op = "approve" /\ t.pc = "stl"
  /\ currentMesh' = "current.stl"
  /\ scene' = SceneAfterSet(scene, currentMesh, "current.stl")
  /\ isLoading' = FALSE
  /\ tasks' = Finish(t)
  /\ lastOp' = "other"
  /\ UNCHANGED <<versions, currentIndex, currentDesign, modifiedDesign,
                 modifiedMesh, actionButtons, now, trail>>
  /\ UNCHANGED <<headRef, speech>>

(* ------------------------------- reject ------------------------------- *)
\* Mutant: reject also sets the head back to the cursor's entry.
RejectDesign_Reverts ==
  /\ ~isLoading
  /\ modifiedMesh' = "null"
  /\ scene' = SceneAfterSet(scene, modifiedMesh, "null")
  /\ modifiedDesign' = Null
  /\ actionButtons' = FALSE
  /\ currentDesign' = versions[currentIndex + 1].design
  /\ lastOp' = IF modifiedDesign # Null THEN "rejectPending" ELSE "reject"
  /\ UNCHANGED <<versions, currentIndex, currentMesh, isLoading, tasks, now,
                 trail>>
  /\ UNCHANGED <<headRef, speech>>

\* main.js:421-463: no await, the whole function is one step; isLoading
\* is set and reset inside it.
RejectDesign ==
  /\ ~isLoading
  /\ modifiedMesh' = "null"
  /\ scene' = SceneAfterSet(scene, modifiedMesh, "null")
  /\ modifiedDesign' = Null
  /\ actionButtons' = FALSE
  /\ lastOp' = IF modifiedDesign # Null THEN "rejectPending" ELSE "reject"
  /\ UNCHANGED <<versions, currentIndex, currentDesign, currentMesh,
                 isLoading, tasks, now, trail>>
  /\ UNCHANGED <<headRef, speech>>

(* --------------------------- undo/redo/restore ------------------------- *)
\* main.js:496-517 / 555-576: loadVersionFromHistory(version) up to its
\* first await.  Entries with a version number go through
\* API.restoreVersion, the others through API.updateParameters.
LoadVersionFromHistory(version) ==
  /\ isLoading' = TRUE
  /\ IF modifiedMesh # "null"
       THEN /\ modifiedMesh' = "null"
            /\ modifiedDesign' = Null
            /\ scene' = SceneAfterSet(scene, modifiedMesh, "null")
       ELSE UNCHANGED <<modifiedMesh, modifiedDesign, scene>>
  /\ tasks' = Spawn(Task("load",
                         IF version.version # 0 THEN "restore" ELSE "update",
                         "", version))
  /\ UNCHANGED <<versions, currentDesign, currentMesh, actionButtons, now>>

\* main.js:466-478.  History.undo() returning null ends the handler.
HandleUndo ==
  /\ ~isLoading
  /\ trail' = [phase |-> "undone", idx0 |-> currentIndex,
               head0 |-> currentDesign]
  /\ IF canUndo(currentIndex)
       THEN /\ CanSpawn
            /\ currentIndex' = undo(versions, currentIndex)
            /\ LoadVersionFromHistory(versions[currentIndex' + 1])
            /\ lastOp' = "other"
       ELSE /\ lastOp' = "other"
            /\ UNCHANGED app
  /\ UNCHANGED <<headRef, speech>>

\* main.js:481-493.  History.redo() returning null ends the handler.
HandleRedo ==
  /\ ~isLoading
  /\ IF canRedo(versions, currentIndex)
       THEN /\ CanSpawn
            /\ currentIndex' = redo(versions, currentIndex)
            /\ LoadVersionFromHistory(versions[currentIndex' + 1])
            /\ lastOp' = "other"
            /\ trail' = IF trail.phase = "undone"
                          THEN [trail EXCEPT !.phase = "redone"]
                          ELSE NoTrail
       ELSE /\ lastOp' = "other"
            /\ trail' = IF trail.phase = "undone"
                          THEN [trail EXCEPT !.phase = "done"]
                          ELSE NoTrail
            /\ UNCHANGED app
  /\ UNCHANGED <<headRef, speech>>

\* part_003:246-255: the Load button of a history-panel item; the panel
\* is rebuilt on every History.updateUI, so index is a listed one.  The
\* handler does not look at AppState.isLoading.
HistoryLoad(index) ==
  /\ CanSpawn
  /\ currentIndex' = jumpToVersion(versions, currentIndex, index)
  /\ LoadVersionFromHistory(versions[index + 1])
  /\ lastOp' = "other"
  /\ trail' = NoTrail
  /\ UNCHANGED <<headRef, speech>>

\* The restore that t waits for is the one the followed redo started.
IsRedoOfTrail(t) ==
  /\ trail.phase = "redone"
  /\ t.version = versions[currentIndex + 1]

\* main.js:519-524 and 582-588: the backend call failed.
LoadFailed(t) ==
  /\ t.op = "load" /\ t.pc \in {"restore", "update"}
  /\ isLoading' = FALSE
  /\ tasks' = Finish(t)
  /\ lastOp' = "other"
  /\ trail' = IF IsRedoOfTrail(t) THEN NoTrail ELSE trail
  /\ UNCHANGED <<versions, currentIndex, currentDesign, modifiedDesign,
                 currentMesh, modifiedMesh, actionButtons, now,
                 scene>>
  /\ UNCHANGED <<headRef, speech>>

\* main.js:526-534: API.restoreVersion succeeded; only the display is
\* updated before the 100 ms delay.
LoadRestored(t) ==
  /\ t.op = "load" /\ t.pc = "restore"
  /\ tasks' = Move(t, "delay")
  /\ lastOp' = "restored"
  /\ trail' = IF IsRedoOfTrail(t) THEN [trail EXCEPT !.phase = "done"]
              ELSE trail
  /\ UNCHANGED <<versions, currentIndex, currentDesign, modifiedDesign,
                 currentMesh, modifiedMesh, isLoading, actionButtons, now,
                 scene>>
  /\ UNCHANGED <<headRef, speech>>

\* main.js:536-552: after the delay the current mesh is dropped and the
\* reload of current.stl started.
LoadRestoredDelay(t) ==
  /\ t.op = "load" /\ t.pc = "delay"
  /\ currentMesh' = "null"
  /\ scene' = SceneAfterSet(scene, currentMesh, "null")
  /\ tasks' = Move(t, "stl")
  /\ lastOp' = "other"
  /\ UNCHANGED <<versions, currentIndex, currentDesign, modifiedDesign,
                 modifiedMesh, isLoading, actionButtons, now, trail>>
  /\ UNCHANGED <<headRef, speech>>

\* Mutant: a restore through updateParameters appends the restored entry.
LoadUpdated_Appends(t) ==
  /\ t.op = "load" /\ t.pc = "update"
  /\ currentDesign' = t.version.design
  /\ versions' = IF Len(versions) < maxVersions
                   THEN Append(versions, t.version) ELSE versions
  /\ actionButtons' = FALSE
  /\ tasks' = IF t.version.design # currentDesign
                THEN MarkStale(Move(t, "stl")) ELSE Move(t, "stl")
  /\ lastOp' = "updated"
  /\ trail' = NoTrail
  /\ UNCHANGED <<currentIndex, modifiedDesign, currentMesh, modifiedMesh,
                 isLoading, now,
                 scene>>
  /\ headRef' = AliasOf(versions, t.version)
  /\ UNCHANGED speech

\* main.js:590-619: API.updateParameters succeeded; head := version.design,
\* buttons hidden; after the 100 ms delay, which changes no state, the
\* reload of current.stl is started.
LoadUpdated(t) ==
  /\ t.op = "load" /\ t.pc = "update"
  /\ currentDesign' = t.version.design
  /\ actionButtons' = FALSE
  /\ tasks' = IF t.version.design # currentDesign
                THEN MarkStale(Move(t, "stl")) ELSE Move(t, "stl")
  /\ lastOp' = "updated"
  /\ trail' = IF IsRedoOfTrail(t) THEN [trail EXCEPT !.phase = "done"]
              ELSE IF trail.phase = "done" THEN NoTrail
              ELSE trail
  /\ UNCHANGED <<versions, currentIndex, modifiedDesign, currentMesh,
                 modifiedMesh, isLoading, now,
                 scene>>
  /\ headRef' = AliasOf(versions, t.version)
  /\ UNCHANGED speech

\* main.js:545-550 and 611-618: onLoad of current.stl after a restore.
LoadStlLoaded(t) ==
  /\ t.op = "load" /\ t.pc = "stl"
  /\ currentMesh' = "current.stl"
  /\ scene' = SceneAfterSet(scene, currentMesh, "current.stl")
  /\ isLoading' = FALSE
  /\ tasks' = Finish(t)
  /\ lastOp' = "other"
  /\ UNCHANGED <<versions, currentIndex, currentDesign, modifiedDesign,
                 modifiedMesh, actionButtons, now, trail>>
  /\ UNCHANGED <<headRef, speech>>

(* ---------------------------- specification --------------------------- *)
\* The operations of the orchestrator.
Next ==
  \/ SubmitModification
  \/ ApproveDesign
  \/ RejectDesign
  \/ HandleUndo
  \/ HandleRedo
  \/ \E index \in 0..(Len(versions) - 1) : HistoryLoad(index)
  \/ \E t \in InFlight :
       \/ SubmitFailed(t)
       \/ SubmitNoChange(t)
       \/ \E data \in Candidates : SubmitSuccess(t, data)
       \/ SubmitStlLoaded(t)
       \/ StlError(t)
       \/ ApproveFailed(t)
       \/ ApproveNotApproved(t)
       \/ ApproveThrows(t)
       \/ ApproveCommit(t)
       \/ ApproveStlLoaded(t)
       \/ LoadFailed(t)
       \/ LoadRestored(t)
       \/ LoadRestoredDelay(t)
       \/ LoadUpdated(t)
       \/ LoadStlLoaded(t)

\* The orchestrator within one reading of the clock: no claim checked
\* under Spec reads an id.
Spec == Init /\ [][Next]_vars

(* ------------------------------- import ------------------------------- *)
\* The loop of part_004:302-305: History.addVersion once per imported
\* version, each call reading the clock and Math.random.
RECURSIVE AddAll(_, _, _, _)
AddAll(h, designs, timestamp, randoms) ==
  IF designs = <<>> THEN h
  ELSE AddAll(addVersion(h.versions, h.currentIndex, Head(designs),
                         "imported",
                         generateVersionId(timestamp, Head(randoms))),
              Tail(designs), timestamp, Tail(randoms))

\* part_004:291-331, ImportExport.importHistoryJSON after the file has
\* been read: History.clear(), then the loop, which runs within one
\* reading of the clock.  AppState is not touched.
ImportHistoryJSON ==
  /\ \E n \in 1..MaxImport :
       \E ps \in [1..n -> Params], randoms \in [1..n -> 0..MaxRandom] :
         LET designs == [k \in 1..n |-> Design(ps[k], "A")]
             h == AddAll([versions |-> <<>>, currentIndex |-> -1],
                         designs, now, randoms)
         IN  /\ versions' = h.versions
             /\ currentIndex' = h.currentIndex
  /\ lastOp' = "imported"
  /\ trail' = NoTrail
  /\ UNCHANGED <<currentDesign, modifiedDesign, currentMesh, modifiedMesh,
                 isLoading, actionButtons, tasks, now,
                 scene>>
  /\ headRef' = 0
  /\ UNCHANGED speech

\* The orchestrator with the clock running and histories imported, used
\* one operation at a time: a new operation starts when the previous one
\* has ended.
OneAtATime == BagCardinality(tasks') <= 1
NextClock == (Next /\ OneAtATime) \/ Tick \/ ImportHistoryJSON
SpecClock == Init /\ [][NextClock]_vars

(* ------------------------------ start-up ------------------------------ *)
\* The page as loaded: nothing in History or AppState, and the call of
\* App.loadCurrentDesign made by App.init waiting for GET /current-design.
InitPage ==
  /\ versions = <<>>
  /\ currentIndex = -1
  /\ currentDesign = Null
  /\ modifiedDesign = Null
  /\ currentMesh = "null"
  /\ modifiedMesh = "null"
  /\ scene = {}
  /\ isLoading = FALSE
  /\ actionButtons = FALSE
  /\ tasks = SetToBag({Task("startup", "design", "", Null)})
  /\ now = 0
  /\ lastOp = "other"
  /\ trail = NoTrail
  /\ headRef = 0
  /\ speech = SpeechIdle

\* Mutant: the cursor is put on the first entry.
loadFromBackend_First(ps) ==
  [versions |-> [k \in 1..Len(ps) |-> BackendVersion(k, ps[k])],
   currentIndex |-> 0]

\* history.js:22-40, History.loadFromBackend on a reply that carries a
\* list (an empty list too: [] is truthy); ps are the parameters of the
\* listed entries, oldest first.
loadFromBackend(ps) ==
  [versions |-> [k \in 1..Len(ps) |-> BackendVersion(k, ps[k])],
   currentIndex |-> Len(ps) - 1]

\* main.js:165-188: the request failed or the backend has no project;
\* the function returns.
StartupNoProject(t) ==
  /\ t.op = "startup" /\ t.pc = "design"
  /\ tasks' = Finish(t)
  /\ lastOp' = "other"
  /\ UNCHANGED <<versions, currentIndex, currentDesign, modifiedDesign,
                 currentMesh, modifiedMesh, isLoading, actionButtons, now,
                 scene, trail, headRef, speech>>

\* main.js:190-201: AppState.setCurrentDesign(data), then the await of
\* History.loadFromBackend; the local `data` is kept in the task.  The
\* documented reply (FULL_DETAILS.md:1057-1078) has no current_version.
StartupDesign(t, data) ==
  /\ t.op = "startup" /\ t.pc = "design"
  /\ currentDesign' = data
  /\ headRef' = 0
  /\ tasks' = Finish(t) (+) SetToBag({Task("startup", "history", "", data)})
  /\ lastOp' = "other"
  /\ UNCHANGED <<versions, currentIndex, modifiedDesign, currentMesh,
                 modifiedMesh, isLoading, actionButtons, now, scene, trail,
                 speech>>

\* main.js:201-236 with historyLoaded true: the list of GET /history has
\* replaced History.versions; the load of current.stl is started.  The
\* newest listed entry, if any, is the design GET /current-design gave.
StartupHistoryLoaded(t, ps) ==
  /\ t.op = "startup" /\ t.pc = "history"
  /\ Len(ps) >= 1 => ps[Len(ps)] = t.version.parameters
  /\ versions' = loadFromBackend(ps).versions
  /\ currentIndex' = loadFromBackend(ps).currentIndex
  /\ tasks' = Move(t, "stl")
  /\ lastOp' = "loaded"
  /\ trail' = NoTrail
  /\ UNCHANGED <<currentDesign, modifiedDesign, currentMesh, modifiedMesh,
                 isLoading, actionButtons, now, scene, speech>>
  /\ headRef' = 0

\* main.js:203-211 with historyLoaded false (the request failed or the
\* reply has no list): History.init(data).
StartupHistoryMissing(t) ==
  /\ t.op = "startup" /\ t.pc = "history"
  /\ \E r \in 0..MaxRandom :
       versions' = addVersion(<<>>, -1, t.version, "Initial design loaded",
                              generateVersionId(now, r)).versions
  /\ currentIndex' = 0
  /\ tasks' = Move(t, "stl")
  /\ lastOp' = "other"
  /\ trail' = NoTrail
  /\ UNCHANGED <<currentDesign, modifiedDesign, currentMesh, modifiedMesh,
                 isLoading, actionButtons, now, scene, speech>>
  /\ headRef' = 0

\* main.js:229-235: onLoad of current.stl.
StartupStlLoaded(t) ==
  /\ t.op = "startup" /\ t.pc = "stl"
  /\ currentMesh' = "current.stl"
  /\ scene' = SceneAfterSet(scene, currentMesh, "current.stl")
  /\ tasks' = Finish(t)
  /\ lastOp' = "other"
  /\ UNCHANGED <<versions, currentIndex, currentDesign, modifiedDesign,
                 modifiedMesh, isLoading, actionButtons, now, trail,
                 headRef, speech>>

\* The lists GET /history can reply with, the empty one included.
HistoryLists == UNION {[1..n -> Params] : n \in 0..MaxInit}

\* The designs GET /current-design can reply with.
CurrentDesigns == {Design(p, "A") : p \in Params}

\* The page from its load on: start-up, then the orchestrator used one
\* operation at a time.
NextPage ==
  \/ \E t \in InFlight : StartupNoProject(t)
  \/ \E t \in InFlight : \E data \in CurrentDesigns : StartupDesign(t, data)
  \/ \E t \in InFlight : \E ps \in HistoryLists : StartupHistoryLoaded(t, ps)
  \/ \E t \in InFlight : StartupHistoryMissing(t)
  \/ \E t \in InFlight : StartupStlLoaded(t)
  \/ (Next /\ OneAtATime)

SpecPage == InitPage /\ [][NextPage]_vars

\* A step of an operation in flight: the reply of the backend or the
\* callback of the STL loader it waits for has arrived.
TaskStep ==
  \E t \in InFlight :
    \/ StartupNoProject(t)
    \/ \E data \in CurrentDesigns : StartupDesign(t, data)
    \/ \E ps \in HistoryLists : StartupHistoryLoaded(t, ps)
    \/ StartupHistoryMissing(t)
    \/ StartupStlLoaded(t)
    \/ SubmitFailed(t)
    \/ SubmitNoChange(t)
    \/ \E data \in Candidates : SubmitSuccess(t, data)
    \/ SubmitStlLoaded(t)
    \/ StlError(t)
    \/ ApproveFailed(t)
    \/ ApproveNotApproved(t)
    \/ ApproveThrows(t)
    \/ ApproveCommit(t)
    \/ ApproveStlLoaded(t)
    \/ LoadFailed(t)
    \/ LoadRestored(t)
    \/ LoadRestoredDelay(t)
    \/ LoadUpdated(t)
    \/ LoadStlLoaded(t)

\* The page with every awaited reply and loader callback arriving in the
\* end; the user is free never to click again.
SpecLive == InitPage /\ [][NextPage]_vars /\ WF_vars(TaskStep)

(* --------------------------- History alone ---------------------------- *)
\* The History object used directly by a caller that holds one design
\* object (currentDesign) and keeps the design of whatever entry an
\* operation returns, as main.js:590-592 does.
InitHistory ==
  /\ versions = <<>>
  /\ currentIndex = -1
  /\ currentDesign = Design(1, "A")
  /\ headRef = 0
  /\ modifiedDesign = Null
  /\ currentMesh = "null"
  /\ modifiedMesh = "null"
  /\ scene = {}
  /\ isLoading = FALSE
  /\ actionButtons = FALSE
  /\ tasks = EmptyBag
  /\ now = 0
  /\ lastOp = "other"
  /\ trail = NoTrail
  /\ speech = SpeechIdle

\* What no History operation touches.
outsideHistory == <<modifiedDesign, currentMesh, modifiedMesh, isLoading,
                    actionButtons, tasks, now, scene, trail, speech>>

\* history.js:9-15, History.init(initialDesign), with the caller's design
\* or with none.
HistoryInit(withDesign) ==
  /\ \E r \in 0..MaxRandom :
       LET h == IF withDesign
                  THEN addVersion(<<>>, -1, currentDesign,
                                  "Initial design loaded",
                                  generateVersionId(now, r))
                  ELSE [versions |-> <<>>, currentIndex |-> -1]
       IN  versions' = h.versions /\ currentIndex' = h.currentIndex
  /\ headRef' = 0
  /\ lastOp' = "other"
  /\ UNCHANGED <<currentDesign, outsideHistory>>

\* history.js:18-40, History.loadFromBackend with a list replied.
HistoryLoadFromBackend(ps) ==
  /\ versions' = loadFromBackend(ps).versions
  /\ currentIndex' = loadFromBackend(ps).currentIndex
  /\ headRef' = 0
  /\ lastOp' = "loaded"
  /\ UNCHANGED <<currentDesign, outsideHistory>>

\* history.js:63-89: where the entry at position ref is after addVersion
\* has dropped the entries behind the cursor and, over maxVersions, the
\* oldest one; 0 if it was dropped.
PositionAfterAdd(vs, ci, ref) ==
  LET kept == IF ci < Len(vs) - 1 THEN ci + 1 ELSE Len(vs)
      ref1 == IF ref > kept THEN 0 ELSE ref
  IN  IF kept + 1 > maxVersions
        THEN (IF ref1 = 0 THEN 0 ELSE ref1 - 1)
        ELSE ref1

\* history.js:48-97, History.addVersion(design) with the caller's design
\* object, which is cloned into the entry.
HistoryAddVersion ==
  /\ \E r \in 0..MaxRandom :
       LET h == addVersion(versions, currentIndex, currentDesign,
                           "Design modified", generateVersionId(now, r))
       IN  versions' = h.versions /\ currentIndex' = h.currentIndex
  /\ headRef' = PositionAfterAdd(versions, currentIndex, headRef)
  /\ lastOp' = "other"
  /\ UNCHANGED <<currentDesign, outsideHistory>>

\* The caller keeps the design of the entry at the (0-based) index an
\* operation returned; the operation returns this.versions[index], the
\* stored object itself (history.js:116, 130, 157).  Reading `.id` of a
\* missing entry throws and the caller gets nothing.
KeepReturned(index) ==
  IF index + 1 \in 1..Len(versions)
    THEN /\ currentDesign' = versions[index + 1].design
         /\ headRef' = index + 1
    ELSE UNCHANGED <<currentDesign, headRef>>

\* history.js:110-121, History.undo() when it does not return null.
HistoryUndo ==
  /\ canUndo(currentIndex)
  /\ currentIndex' = undo(versions, currentIndex)
  /\ KeepReturned(currentIndex')
  /\ lastOp' = "other"
  /\ UNCHANGED <<versions, outsideHistory>>

\* history.js:124-135, History.redo() when it does not return null.
HistoryRedo ==
  /\ canRedo(versions, currentIndex)
  /\ currentIndex' = redo(versions, currentIndex)
  /\ KeepReturned(currentIndex')
  /\ lastOp' = "other"
  /\ UNCHANGED <<versions, outsideHistory>>

\* history.js:154-163, History.jumpToVersion(index) with index in range.
HistoryJump(index) ==
  /\ index >= 0 /\ index < Len(versions)
  /\ currentIndex' = jumpToVersion(versions, currentIndex, index)
  /\ KeepReturned(index)
  /\ lastOp' = "other"
  /\ UNCHANGED <<versions, outsideHistory>>

\* history.js:214-225: `historyData.versions || []` and
\* `historyData.currentIndex || 0`; hasIndex = the property is present.
importHistory(vs, hasIndex, index) ==
  [versions |-> vs,
   currentIndex |-> IF hasIndex /\ index # 0 THEN index ELSE 0]

\* The version lists a history file can hold.
ImportedLists ==
  UNION {[1..n -> {NewVersion(Design(p, "A"), "imported",
                              generateVersionId(0, 0)) : p \in Params}]
           : n \in 0..MaxImport}

\* History.importHistory(historyData) on the parsed content of a file.
HistoryImport(vs, hasIndex, index) ==
  /\ versions' = importHistory(vs, hasIndex, index).versions
  /\ currentIndex' = importHistory(vs, hasIndex, index).currentIndex
  /\ headRef' = 0
  /\ lastOp' = "imported"
  /\ UNCHANGED <<currentDesign, outsideHistory>>

\* history.js:228-233, History.clear().
HistoryClear ==
  /\ versions' = <<>>
  /\ currentIndex' = -1
  /\ headRef' = 0
  /\ lastOp' = "other"
  /\ UNCHANGED <<currentDesign, outsideHistory>>

\* The caller assigns a property of the design object it holds.  When the
\* object is a stored entry's design (headRef), the entry changes with it;
\* the entry's separately cloned `parameters` does not.
ModifyDesignObject(p) ==
  /\ currentDesign.parameters # p
  /\ currentDesign' = [currentDesign EXCEPT !.parameters = p]
  /\ versions' = IF headRef \in 1..Len(versions)
                   THEN [versions EXCEPT ![headRef].design = currentDesign']
                   ELSE versions
  /\ lastOp' = "other"
  /\ UNCHANGED <<currentIndex, headRef, outsideHistory>>

NextHistory ==
  \/ \E withDesign \in BOOLEAN : HistoryInit(withDesign)
  \/ \E ps \in HistoryLists : HistoryLoadFromBackend(ps)
  \/ HistoryAddVersion
  \/ HistoryUndo
  \/ HistoryRedo
  \/ \E index \in 0..(Len(versions) - 1) : HistoryJump(index)
  \/ \E vs \in ImportedLists, hasIndex \in BOOLEAN, index \in -1..MaxImport :
       HistoryImport(vs, hasIndex, index)
  \/ HistoryClear
  \/ \E p \in Params : ModifyDesignObject(p)
  \/ Tick

SpecHistory == InitHistory /\ [][NextHistory]_vars

(* ------------------------------- Speech ------------------------------- *)
\* stream.getTracks().forEach(track => track.stop()) on stream k: its
\* tracks end, and the MediaRecorder recording from it (numbered like its
\* stream) stops and queues its stop event.
StopTracks(sp, k) ==
  [sp EXCEPT !.streams = @ \ {k},
             !.recorders = @ \ {k},
             !.stopped = @ \cup (sp.recorders \cap {k})]

\* js/main.js:797-824, Speech.cleanup(): only what the fields of Speech
\* still reference is stopped or cleared.
cleanup(sp) ==
  LET s1 == IF sp.stream # 0 THEN StopTracks(sp, sp.stream) ELSE sp
  IN  [s1 EXCEPT !.currentAudioBlob = FALSE,
                 !.stream = 0,
                 !.timeouts = @ \ {sp.recordingTimeout},
                 !.recordingTimeout = 0,
                 !.intervals = @ \ {sp.recordingInterval},
                 !.recordingInterval = 0,
                 !.isListening = FALSE]

\* js/main.js:699-725, Speech.stopRecording().
stopRecording(sp) ==
  IF ~sp.isListening THEN sp
  ELSE
    LET s1 == [sp EXCEPT !.timeouts = @ \ {sp.recordingTimeout},
                         !.recordingTimeout = 0,
                         !.intervals = @ \ {sp.recordingInterval},
                         !.recordingInterval = 0,
                         !.recorders = @ \ {sp.mediaRecorder},
                         !.stopped = @ \cup (sp.recorders
                                               \cap {sp.mediaRecorder})]
        s2 == IF sp.stream # 0 THEN StopTracks(s1, sp.stream) ELSE s1
    IN  [s2 EXCEPT !.stream = 0, !.isListening = FALSE]

\* The page with only the voice button in use.
InitSpeech ==
  /\ versions = <<>>
  /\ currentIndex = -1
  /\ currentDesign = Null
  /\ headRef = 0
  /\ modifiedDesign = Null
  /\ currentMesh = "null"
  /\ modifiedMesh = "null"
  /\ scene = {}
  /\ isLoading = FALSE
  /\ actionButtons = FALSE
  /\ tasks = EmptyBag
  /\ now = 0
  /\ lastOp = "other"
  /\ trail = NoTrail
  /\ speech = SpeechIdle

\* What Speech never touches.
outsideSpeech == <<app, trail, headRef>>

\* js/main.js:611-613: a click on the voice button while isListening.
VoiceClickStop ==
  /\ speech.isListening
  /\ speech' = stopRecording(speech)
  /\ lastOp' = "stopRecording"
  /\ UNCHANGED outsideSpeech

\* js/main.js:614-629: a click while isListening is false starts
\* startRecording, which runs cleanup() and waits for getUserMedia;
\* isListening is not set before the wait.
VoiceClickStart ==
  /\ ~speech.isListening
  /\ speech.made + speech.starting < MaxRecordings
  /\ speech' = [cleanup(speech) EXCEPT !.starting = @ + 1]
  /\ lastOp' = "cleanup"
  /\ UNCHANGED outsideSpeech

\* js/main.js:629-688: getUserMedia resolved with a new stream; the rest
\* of startRecording runs: a new MediaRecorder is started on it,
\* isListening is set, the interval and the timeout are armed.  Each
\* field is overwritten, whatever it referenced.
MicGranted ==
  /\ speech.starting > 0
  /\ LET k == speech.made + 1
     IN  speech' = [speech EXCEPT !.starting = @ - 1,
                                  !.made = k,
                                  !.stream = k,
                                  !.streams = @ \cup {k},
                                  !.mediaRecorder = k,
                                  !.recorders = @ \cup {k},
                                  !.isListening = TRUE,
                                  !.recordingInterval = k,
                                  !.intervals = @ \cup {k},
                                  !.recordingTimeout = k,
                                  !.timeouts = @ \cup {k}]
  /\ lastOp' = "other"
  /\ UNCHANGED outsideSpeech

\* js/main.js:689-696: getUserMedia rejected; the catch runs cleanup().
MicDenied ==
  /\ speech.starting > 0
  /\ speech' = [cleanup(speech) EXCEPT !.starting = @ - 1]
  /\ lastOp' = "cleanup"
  /\ UNCHANGED outsideSpeech

\* js/main.js:680-688: the 15 s timeout k fires.
TimeoutFires(k) ==
  /\ k \in speech.timeouts
  /\ speech' = stopRecording([speech EXCEPT !.timeouts = @ \ {k}])
  /\ lastOp' = IF speech.isListening THEN "stopRecording" ELSE "other"
  /\ UNCHANGED outsideSpeech

\* js/main.js:642-660: the stop event of recorder k is delivered; a
\* recording shorter than 0.5 s is dropped by cleanup(), otherwise the
\* blob is made and the playback controls are shown.
RecorderStopped(k, tooShort) ==
  /\ k \in speech.stopped
  /\ LET s1 == [speech EXCEPT !.stopped = @ \ {k}]
     IN  speech' = IF tooShort THEN cleanup(s1)
                   ELSE [s1 EXCEPT !.currentAudioBlob = TRUE]
  /\ lastOp' = IF tooShort THEN "cleanup" ELSE "other"
  /\ UNCHANGED outsideSpeech

\* js/main.js:775-784: Send on the playback controls, up to the await of
\* transcribeAudio.
SendRecording ==
  /\ speech.currentAudioBlob
  /\ speech.sending = 0
  /\ speech' = [speech EXCEPT !.sending = 1]
  /\ lastOp' = "other"
  /\ UNCHANGED outsideSpeech

\* js/main.js:785: transcribeAudio has returned; cleanup().
TranscribeDone ==
  /\ speech.sending = 1
  /\ speech' = [cleanup(speech) EXCEPT !.sending = 0]
  /\ lastOp' = "cleanup"
  /\ UNCHANGED outsideSpeech

\* js/main.js:788-795: Cancel on the playback controls.
CancelRecording ==
  /\ speech.currentAudioBlob
  /\ speech' = cleanup(speech)
  /\ lastOp' = "cleanup"
  /\ UNCHANGED outsideSpeech

NextSpeech ==
  \/ VoiceClickStop
  \/ VoiceClickStart
  \/ MicGranted
  \/ MicDenied
  \/ \E k \in 1..MaxRecordings : TimeoutFires(k)
  \/ \E k \in 1..MaxRecordings, tooShort \in BOOLEAN :
       RecorderStopped(k, tooShort)
  \/ SendRecording
  \/ TranscribeDone
  \/ CancelRecording

SpecSpeech == InitSpeech /\ [][NextSpeech]_vars

C2_AppendOnly ==
  [][\/ versions' = versions
     \/ /\ Len(versions') = Len(versions) + 1
        /\ SubSeq(versions', 1, Len(versions)) = versions
     \/ /\ Len(versions) = maxVersions
        /\ Len(versions') = maxVersions
        /\ SubSeq(versions', 1, maxVersions - 1) = Tail(versions)]_vars

\* C2: a step that changes the store keeps the entries up to the cursor,
\* drops every entry after the cursor, appends one entry, and drops the
\* oldest entry if that makes the store longer than maxVersions.
C2_TruncatesAfterCursor ==
  [][\/ versions' = versions
     \/ LET kept == SubSeq(versions, 1, currentIndex + 1)
            new == versions'[Len(versions')]
        IN  IF Len(kept) < maxVersions
              THEN versions' = Append(kept, new)
              ELSE versions' = Append(Tail(kept), new)]_vars

\* C2 witness: an approve after an undo has replaced the entries that
\* followed the cursor by the new one.
C2_Witness ==
  /\ lastOp = "commitAfterUndo"
  /\ versions[Len(versions)].description = "understood"

\* C3 as stated: an approve started with nothing staged ends as a reported
\* failure and leaves History.versions and History.currentIndex alone.
C3_NothingPending ==
  [][\A t \in InFlight :
       ( /\ t.op = "approve" /\ t.pc = "api"
         /\ t.description = "Design approved"
         /\ tasks' \in {Finish(t), MarkStale(Move(t, "stl"))} )
       => /\ lastOp' = "approveFailed"
          /\ UNCHANGED <<versions, currentIndex>>]_vars

\* C4: a reject step leaves History.versions, History.currentIndex and the
\* head design as they are, with or without a staged proposal; what it
\* changes is the pending proposal (design, mesh, buttons), which it clears.
C4_RejectFrame ==
  [][RejectDesign =>
       /\ UNCHANGED <<versions, currentIndex, currentDesign>>
       /\ UNCHANGED <<currentMesh, isLoading, tasks, now>>
       /\ modifiedDesign' = Null
       /\ modifiedMesh' = "null"]_vars

\* C4 witness: a staged proposal has just been rejected.
C4_Witness == lastOp = "rejectPending" /\ modifiedDesign = Null

\* C5: the step that commits an approved candidate leaves the cursor on
\* the last entry, that entry's design and the head design equal to the
\* candidate, and nothing pending.
C5_AfterApprove ==
  [][(\E t \in InFlight : ApproveCommit(t)) =>
       LET candidate == Design(modifiedDesign.new_parameters,
                               modifiedDesign.analysis)
       IN  /\ currentIndex' = Len(versions') - 1
           /\ versions'[Len(versions')].design = candidate
           /\ currentDesign' = candidate
           /\ modifiedDesign' = Null]_vars

\* C5 witness: a candidate has just been committed after an undo.
C5_Witness ==
  /\ lastOp = "commitAfterUndo"
  /\ currentIndex = Len(versions) - 1
  /\ currentDesign = versions[Len(versions)].design
  /\ modifiedDesign = Null

\* C6 as stated: the step on which the backend confirms a restore sets
\* the head design to the restored entry's design (compared by
\* parameters) and appends nothing.
C6_RestoreSetsHead ==
  [][\A t \in InFlight :
       (LoadRestored(t) \/ LoadUpdated(t)) =>
         /\ currentDesign'.parameters = t.version.design.parameters
         /\ Len(versions') = Len(versions)]_vars

\* A restore (loadVersionFromHistory) has started and not ended.
RestoreInProgress == \E t \in InFlight : t.op = "load"

\* C7 as stated: whenever no restore is in progress, the cursor's entry
\* holds the head design (compared by parameters).
C7_CursorIsHead ==
  ~RestoreInProgress =>
    versions[currentIndex + 1].design.parameters = currentDesign.parameters

IdLess(a, b) == a[1] < b[1] \/ (a[1] = b[1] /\ a[2] < b[2])

\* C9 as stated: among the entries made by History.addVersion, a later
\* one carries a strictly greater number than an earlier one.
C9_NumbersIncrease ==
  \A i, j \in 1..Len(versions) :
    (i < j /\ versions[i].version = 0 /\ versions[j].version = 0)
      => IdLess(versions[i].id, versions[j].id)

C11_NoPartialCommit ==
  [][(\/ ApproveDesign
      \/ \E t \in InFlight : ApproveFailed(t) \/ ApproveNotApproved(t))
       => UNCHANGED <<currentDesign, versions, currentIndex>>]_vars

\* C11 witness: the approve of a staged candidate has just failed and the
\* candidate is still pending.
C11_Witness == lastOp = "approveFailed" /\ modifiedDesign # Null

\* C12 as stated: when the load of modified.stl ends in the error
\* callback, no pending design is left behind.
C12_NoHalfStaged ==
  [][\A t \in InFlight :
       (StlError(t) /\ t.op = "submit") => modifiedDesign' = Null]_vars

\* C13 as stated: while an approve or a restore (undo, redo, history load)
\* is under way, no other operation is.
C13_MutuallyExclusive ==
  \A t \in InFlight :
    t.op \in {"approve", "load"} => BagCardinality(tasks) = 1

\* C14 as stated: while a propose is in flight a second propose can start.
C14_SecondAccepted ==
  ((\E t \in InFlight : t.op = "submit") /\ CanSpawn)
    => ENABLED SubmitModification

\* C14: a propose sends its request only when AppState.isLoading is
\* false; while isLoading is true a propose does nothing.
C14_ProposeWaits ==
  [][tasks' = Spawn(Task("submit", "api", "", Null)) => ~isLoading]_vars

\* C14 witness: a propose is in flight with isLoading set, and a second
\* propose cannot start.
C14_Witness ==
  /\ isLoading
  /\ CanSpawn
  /\ \E t \in InFlight : t.op = "submit"
  /\ ~ENABLED SubmitModification

\* C15 as stated: a reply to a propose during which the head moved is
\* not installed as the pending proposal.
C15_StaleBase ==
  [][\A t \in InFlight, data \in Candidates :
       (SubmitSuccess(t, data) /\ t.description = "stale")
         => modifiedDesign' = modifiedDesign]_vars

\* C16 as stated: on the step that completes a restore on the backend,
\* nothing is pending any more.
C16_RestoreClearsPending ==
  [][\A t \in InFlight :
       (LoadRestored(t) \/ LoadUpdated(t))
         => modifiedDesign' = Null /\ modifiedMesh' = "null"]_vars

C18_DeclinedFrame ==
  [][(\/ SubmitModification
      \/ \E t \in InFlight : SubmitFailed(t) \/ SubmitNoChange(t))
       => UNCHANGED <<modifiedDesign, modifiedMesh, currentDesign,
                      versions, currentIndex>>]_vars

\* C18 witness: a propose has just been declined while an earlier
\* candidate is pending.
C18_Witness == lastOp = "declined" /\ modifiedDesign # Null

\* C19: History.versions changes on the commit step of an approve only,
\* and no step of propose or reject changes the head design.
C19_OnlyApproveGrows ==
  [][/\ versions' # versions => \E t \in InFlight : ApproveCommit(t)
     /\ (\/ SubmitModification
         \/ RejectDesign
         \/ \E t \in InFlight :
              \/ SubmitFailed(t)
              \/ SubmitNoChange(t)
              \/ \E data \in Candidates : SubmitSuccess(t, data)
              \/ SubmitStlLoaded(t)
              \/ (StlError(t) /\ t.op = "submit"))
          => currentDesign' = currentDesign]_vars

\* C19 witness: an approve has just made the store one entry longer.
C19_Witness ==
  /\ lastOp = "commit"
  /\ Len(versions) >= 2
  /\ currentDesign = versions[Len(versions)].design

\* The indexes a caller can hand to jumpToVersion beyond the listed ones.
OutOfRange == {-1, Len(versions), Len(versions) + 1}

\* C20: the cursor stays within [0, |versions| - 1]; undo at the first
\* entry, redo at the last and jumpToVersion outside the range leave the
\* cursor where it is; handleUndo and handleRedo then change nothing and
\* start no restore.
C20_OutOfRangeNoOp ==
  /\ [](/\ currentIndex \in 0..(Len(versions) - 1)
        /\ undo(versions, 0) = 0
        /\ redo(versions, Len(versions) - 1) = Len(versions) - 1
        /\ \A index \in OutOfRange :
             jumpToVersion(versions, currentIndex, index) = currentIndex
        /\ \A index \in 0..(Len(versions) - 1) :
             jumpToVersion(versions, currentIndex, index) = index)
  /\ [][(\/ HandleUndo /\ ~canUndo(currentIndex)
         \/ HandleRedo /\ ~canRedo(versions, currentIndex))
          => UNCHANGED app]_vars

\* C20 witness: undo was asked for on the first of several entries and
\* the cursor is still there, with no restore started.
C20_Witness ==
  /\ trail.phase = "undone"
  /\ trail.idx0 = 0
  /\ currentIndex = 0
  /\ Len(versions) >= 2
  /\ ~RestoreInProgress

\* C25 as stated: a failed backend restore after an undo leaves the cursor
\* where it was before the undo, and the head and the pending proposal as
\* they are.  (The failing restore is the one the undo started: no other
\* call is in flight and nothing has moved the cursor since.)
C25_FailedRestoreNoEffect ==
  [][\A t \in InFlight :
       (/\ LoadFailed(t)
        /\ trail.phase = "undone" /\ trail.idx0 >= 1
        /\ BagCardinality(tasks) = 1)
         => /\ currentIndex' = trail.idx0
            /\ currentDesign' = trail.head0
            /\ modifiedDesign' = modifiedDesign]_vars

\* C27 as stated: the approve/reject buttons are shown only while a
\* proposal is pending.
C27_ButtonsImplyPending == actionButtons => modifiedDesign # Null

\* C29 as stated: a non-null current mesh is in the scene, and with no
\* modified mesh held no modified.stl mesh is left in the scene.
C29_MeshesInScene ==
  /\ currentMesh # "null" => currentMesh \in scene
  /\ modifiedMesh = "null" => "modified.stl" \notin scene

\* The store holds the one entry the walk-through starts with, the cursor
\* is on it and it is the head.
OneEntry ==
  /\ Len(versions) = 1
  /\ currentIndex = 0
  /\ currentDesign # Null
  /\ currentDesign.parameters = versions[1].parameters

\* The store holds #1 and the #2 an approve has made.
TwoEntries ==
  /\ Len(versions) = 2
  /\ versions[2].version = 0

\* C21 as stated, step by step.  From one entry #1, the commit of an
\* approve gives [#1, #2] with the cursor on #2; a reject with [#1, #2]
\* stored and #2 the head leaves store and head alone; an undo from #2 puts
\* the cursor on #1 and, when its restore succeeds, the head is D1; a
\* restore of #2 from there puts the cursor on #2 and, when it succeeds,
\* the head is D2; neither changes the store.
C21_Scenario ==
  /\ [][\A t \in InFlight :
          (OneEntry /\ BagCardinality(tasks) = 1 /\ ApproveCommit(t))
            => /\ Len(versions') = 2
               /\ versions'[1] = versions[1]
               /\ versions'[2].design = NormalizedDesign(modifiedDesign)
               /\ currentIndex' = 1]_vars
  /\ [][(/\ TwoEntries /\ currentIndex = 1 /\ modifiedDesign # Null
         /\ currentDesign = versions[2].design
         /\ RejectDesign)
          => versions' = versions /\ currentDesign' = currentDesign]_vars
  /\ [][(TwoEntries /\ currentIndex = 1 /\ HandleUndo)
          => currentIndex' = 0 /\ versions' = versions]_vars
  /\ [][\A t \in InFlight :
          (/\ TwoEntries /\ currentIndex = 0
           /\ trail.phase = "undone" /\ trail.idx0 = 1
           /\ BagCardinality(tasks) = 1
           /\ LoadRestored(t) \/ LoadUpdated(t))
            => /\ currentDesign'.parameters = versions[1].parameters
               /\ currentIndex' = 0
               /\ versions' = versions]_vars
  /\ [][(TwoEntries /\ currentIndex = 0 /\ HistoryLoad(1))
          => currentIndex' = 1 /\ versions' = versions]_vars
  /\ [][\A t \in InFlight :
          (/\ TwoEntries /\ currentIndex = 1
           /\ t.version = versions[2]
           /\ BagCardinality(tasks) = 1
           /\ LoadRestored(t) \/ LoadUpdated(t))
            => /\ currentDesign'.parameters = versions[2].parameters
               /\ currentIndex' = 1
               /\ versions' = versions]_vars

C22_WitnessEmpty ==
  /\ lastOp = "loaded"
  /\ versions = <<>>
  /\ currentIndex = -1

\* App.loadCurrentDesign is past its two awaits.
StartupDone ==
  \A t \in InFlight : ~(t.op = "startup" /\ t.pc \in {"design", "history"})

\* C28 as stated: once start-up has set a head and loaded the history,
\* the history is non-empty and the cursor is on one of its entries.
C28_LoadedHasHistory ==
  (currentDesign # Null /\ StartupDone)
    => /\ Len(versions) >= 1
       /\ currentIndex \in 0..(Len(versions) - 1)

\* C24 as stated: whenever AppState.isLoading is set it is cleared again
\* later.
C24_BusyReleased == isLoading ~> ~isLoading

C26_CursorWellFormed ==
  /\ currentIndex = -1 <=> versions = <<>>
  /\ versions # <<>> => currentIndex \in 0..(Len(versions) - 1)

\* The streams, recorders and timers that are live.
LiveResources ==
  speech.streams \cup speech.recorders \cup speech.timeouts
    \cup speech.intervals

\* C30 as stated: never more than one live stream, MediaRecorder, timeout
\* or interval, and none is left once stopRecording or cleanup has run.
C30_OneRecording ==
  /\ [](/\ Cardinality(speech.streams) <= 1
        /\ Cardinality(speech.recorders) <= 1
        /\ Cardinality(speech.timeouts) <= 1
        /\ Cardinality(speech.intervals) <= 1)
  /\ [][lastOp' \in {"stopRecording", "cleanup"}
          => LiveResources' = {}]_vars

====
